---- MODULE Spec2Model ----
(***************************************************************************)
(* Model of the audio-visual contrastive training scripts                  *)
(*   src/train.py                    (localization variant, cIoU/AUC)      *)
(*   src/train_semantic_multiview.py (retrieval variant, Recall@10)        *)
(*                                                                         *)
(* Four specifications share the module:                                   *)
(*   Spec       main_worker: start-up, resume, epoch loop, checkpoints     *)
(*   SpecTile   validate: tiled construction of the similarity matrix      *)
(*   SpecTrain  train: one pass over the batches of the train loader       *)
(*   SpecRetr   validate / evaluate_retrieval: top-K selection, Recall@K   *)
(* Real-valued quantities (metrics, embeddings, similarities) are modelled *)
(* by small integers; only their order and sums matter to the properties.  *)
(***************************************************************************)
EXTENDS Integers, Sequences, FiniteSets, TLC

(* ------------------------------ bounds -------------------------------- *)
\* number of epochs asked for (--epochs)
Epochs == 3
\* metrics (cIoU, Recall@10) take the values 0..MaxMetric
MaxMetric == 2
\* how many times the run may be interrupted and launched again
MaxRestarts == 1
\* accelerators per node (torch.cuda.device_count())
NGpus == 2
\* validation items: the embedding matrices have 0..MaxItems rows
MaxItems == 4
\* the tile edge (batch_size = 128 in validate) ranges over 1..MaxBlock
MaxBlock == 3
\* the embeddings tried are numbered 0..MaxSeed
MaxSeed == 1
\* training samples: the train set has 0..MaxData items, with ids 1..MaxData
MaxData == 3
\* --batch_size of train.py ranges over 1..MaxBatch
MaxBatch == 2
\* the batch size of the multiview train loader (16 in the source, scaled down)
MultiviewBatch == 2
\* a batch's loss value ranges over 0..MaxLoss
MaxLoss == 1
\* the retrieval matrices have up to K + ExtraCols rows and columns, K being
\* the number of columns the routine selects
ExtraCols == 1
\* similarities take the values 0..MaxSim
MaxSim == 1
\* validation items when Recall@K is taken for two values of K
MaxRecallItems == 3
\* AverageMeter: largest value, largest weight, update calls between two resets
MaxVal == 5
MaxWeight == 4
MaxCalls == 2
\* validate: items, labels in the label file, embedding length, heatmap pixels
MaxLocItems == 2
MaxLabels == 2
MaxDim == 2
\* stands for the 224 * 224 pixels of the heatmap (lines 322, 325)
HeatPixels == 2
\* stands for the 15446 of the views of lines 321 and 324
ViewLen == 2
\* stands for the batch_size = 128 of the multiview test loader (line 169)
MultiviewTestBatch == 2
\* batch_size of train.py's test loader (line 167)
TrainTestBatch == 1

(* --------------------------- program constants ------------------------- *)
\* similarity_matrix.topk(10, ...) in validate
TopKValidate == 10
\* top_k = 5 in evaluate_retrieval
TopKEvaluate == 5

(* ---------------------------- generic helpers -------------------------- *)
Range(s) == {s[i] : i \in 1..Len(s)}

Min(a, b) == IF a <= b THEN a ELSE b

Max(a, b) == IF a >= b THEN a ELSE b

RECURSIVE SumTo(_, _)
\* sum of f[1..n]
SumTo(f, n) == IF n = 0 THEN 0 ELSE f[n] + SumTo(f, n - 1)

(***************************************************************************)
(*                    PART 1: main_worker (Spec)                           *)
(***************************************************************************)
VARIABLES
  script,          \* "train" (src/train.py) or "multiview" (src/train_semantic_multiview.py)
  experiment_name, \* args.experiment_name
  mpd,             \* args.multiprocessing_distributed
  workers,         \* the processes running main_worker: <<node rank, gpu>>
  fs,              \* the file system: path -> checkpoint record (Absent if no file)
  pc,              \* per worker: position in main_worker
  rank,            \* per worker: args.rank
  model_dir,       \* per worker: local variable model_dir
  start_epoch,     \* per worker
  best,            \* per worker: best_cIoU / best_recall_at_10
  epoch,           \* per worker: loop variable
  metric,          \* per worker: cIoU / recall_at_10 of the last validate
  ckp,             \* per worker: local variable ckp
  model,           \* per worker: model parameters (abstracted by the metric they score)
  optimizer,       \* per worker: optimizer state (abstracted by the number of epochs stepped)
  training,        \* per worker: model.training, the mode set by model.train() / model.eval()
  achieved,        \* history: per worker, the best metric of the epochs evaluated in this launch
  loaded,          \* history: per worker, the record read at start-up (Absent if none)
  history,         \* history: the epochs trained so far, over all launches
  runlen,          \* history: the number of epochs trained in the current launch
  nwrites,         \* history: per path, the number of times it was written
  restarts         \* history: number of relaunches so far

(* state of SpecTile: the tiled construction in validate *)
VARIABLES
  tN,          \* image_embeddings.size(0)
  tM,          \* audio_embeddings.size(0)
  tBlock,      \* batch_size, the tile edge
  image_embeddings,
  audio_embeddings,
  similarity_matrix,
  ti,          \* outer loop variable i
  tj,          \* inner loop variable j
  tpc,         \* "loop" or "done"
  twrites,     \* history: how many times each cell was assigned
  ttiles       \* history: the tiles visited, <<i, j, rows, columns>>

tileVars == <<tN, tM, tBlock, image_embeddings, audio_embeddings,
              similarity_matrix, ti, tj, tpc, twrites, ttiles>>

(* state of SpecTrain: one call of train over the batches of the loader *)
VARIABLES
  trScript,       \* "train" or "multiview"
  batches,        \* what the train loader yields: a sequence of batches of sample ids
  top_k_data,     \* the hard-positive index, in file order: <<video_id, indices>>
  tr_i,           \* number of batches taken from the loader
  trpc,           \* position in the loop body
  video_idx,      \* the sample ids of the current batch
  selected_index, \* the candidates selected for the current batch
  hp_rows,        \* rows of hp_image_emb (-1: not computed)
  hp_matrix,      \* shape <<rows, columns>> of hp_similarity_matrix (<<>>: not built)
  loss_mtr,       \* the AverageMeter 'Loss': [val, sum, count, avg]
  opt_steps,      \* number of optimizer.step() calls
  loss_log,       \* history: the batch sizes a loss was computed for
  trerr           \* "" or the exception that ended the call

trainVars == <<trScript, batches, top_k_data, tr_i, trpc, video_idx,
               selected_index, hp_rows, hp_matrix,
               loss_mtr, opt_steps, loss_log, trerr>>

(* state of SpecRetr: Recall@K over a similarity matrix *)
VARIABLES
  rmode,       \* "validate" (topk) or "evaluate_retrieval" (argsort and slice)
  rN,          \* number of validation items
  rsim,        \* the N x N similarity matrix
  rrow,        \* rows scored so far
  rtop,        \* the set of top-K column indices selected for the last row scored
  rhits,       \* rows whose own index was among their top-K
  rpc          \* "score", "done" or "error"

retrVars == <<rmode, rN, rsim, rrow, rtop, rhits, rpc>>

(* state of SpecRecallK: Recall@K of one matrix for two values of K *)
VARIABLES
  kMode,       \* "validate" (topk) or "evaluate_retrieval" (argsort and slice)
  kN,          \* number of validation items
  kSim,        \* the N x N similarity matrix
  kK1,         \* the smaller K
  kK2,         \* the larger K
  kRow,        \* rows scored so far
  kTop1,       \* columns selected for the last row scored, with K = kK1
  kTop2,       \* columns selected for the last row scored, with K = kK2
  kHits1,      \* rows whose own index was among their top kK1
  kHits2,      \* rows whose own index was among their top kK2
  kpc          \* "score" or "done"

recallKVars == <<kMode, kN, kSim, kK1, kK2, kRow, kTop1, kTop2, kHits1, kHits2, kpc>>

(* state of SpecMeter: one AverageMeter object and the calls made on it *)
VARIABLES
  meter,       \* the object's fields: [val, sum, count, avg]
  mpc,         \* "ready", or "error" once a call has raised
  merr,        \* "" or the exception raised
  mcalls,      \* history: the update calls since construction or the last reset, <<val, n>>
  mread        \* the average read by the caller since the last call (<<>>: none)

meterVars == <<meter, mpc, merr, mcalls, mread>>

(* state of SpecLoc: one call of validate (train.py; the embedding and matrix *)
(* part is the same in train_semantic_multiview.py)                          *)
VARIABLES
  vScript,     \* "train" or "multiview"
  vN,          \* number of validation items; their ids are 1..vN
  vOut,        \* dimensions of what model.extract_features returns: 2 or 4
  vD,          \* embedding length D (512 in the comments of the source), at least 2
  vLabels,     \* what load_labels returns: id -> label set, for the ids that have an entry
  vpc,         \* "collect", "cat", "matrix", "gt", "score", "final", "recall", "done", "error"
  verr,        \* "" or the exception that ended the call
  vk,          \* items taken from the test loader
  vBatches,    \* history: the sizes of the batches taken
  vShapes,     \* the shapes of the tensors appended to image_embeddings
  vCat,        \* shape of image_embeddings after torch.cat (<<>>: not yet)
  vSim,        \* shape of similarity_matrix (<<>>: not yet)
  gt_map,      \* the ground-truth map, rows and columns 1..vN (<<>>: not yet)
  vrow,        \* rows scored so far
  pred,        \* the heatmap pixels of the row scored last, flattened
  thr,         \* the threshold of the row scored last
  vScored,     \* history: per row, the number of cal_CIOU calls
  vPhases      \* history: the phases entered, in order

locVars == <<vScript, vN, vOut, vD, vLabels, vpc, verr, vk, vBatches, vShapes, vCat,
             vSim, gt_map, vrow, pred, thr, vScored, vPhases>>

ckptVars == <<script, experiment_name, mpd, workers, fs, pc, rank, model_dir,
              start_epoch, best, epoch, metric, ckp, model, optimizer,
              training, achieved, loaded, history, runlen, nwrites, restarts>>

vars == <<ckptVars, tileVars, trainVars, retrVars, recallKVars, meterVars, locVars>>

\* what each specification leaves alone
notCkpt == <<tileVars, trainVars, retrVars, recallKVars, meterVars, locVars>>
notTile == <<ckptVars, trainVars, retrVars, recallKVars, meterVars, locVars>>
notTrain == <<ckptVars, tileVars, retrVars, recallKVars, meterVars, locVars>>
notRetr == <<ckptVars, tileVars, trainVars, recallKVars, meterVars, locVars>>
notRecallK == <<ckptVars, tileVars, trainVars, retrVars, meterVars, locVars>>
notMeter == <<ckptVars, tileVars, trainVars, retrVars, recallKVars, locVars>>
notLoc == <<ckptVars, tileVars, trainVars, retrVars, recallKVars, meterVars>>

Metrics == 0..MaxMetric

\* a checkpoint record {model, optimizer, epoch, best metric}
Record(m, o, e, b) == [model |-> m, optimizer |-> o, epoch |-> e, best |-> b]

\* no file at that path / ckp not assigned
Absent == Record(0, 0, -1, 0)

Exists(r) == r.epoch >= 0

\* os.path.join(p, n): joining the empty string leaves the directory
Join(p, n) == IF n = "" THEN p ELSE Append(p, n)

\* args.model_dir
ArgsModelDir == <<"checkpoints">>

ExperimentNames == {"", "hdvsl_vggss"}

Paths == {Join(Join(ArgsModelDir, n), f) :
            n \in ExperimentNames, f \in {"latest.pth", "best.pth"}}

\* args.rank = args.rank * ngpus_per_node + gpu
GlobalRank(node_rank, gpu) == node_rank * NGpus + gpu

\* main: args.world_size = ngpus_per_node
WorldSize == NGpus

\* the workers that have not died of an exception
Live == {w \in workers : pc[w] # "fatal"}

InitCkpt ==
  /\ script \in {"train", "multiview"}
  /\ experiment_name \in ExperimentNames
  /\ mpd \in BOOLEAN
  /\ workers \in IF mpd THEN {{0} \X (0..NGpus-1), {0, 1} \X (0..NGpus-1)}
                        ELSE {{<<0, 0>>}}
  /\ fs = [p \in Paths |-> Absent]
  /\ pc = [w \in workers |-> "start"]
  /\ rank = [w \in workers |-> w[1]]
  /\ model_dir = [w \in workers |-> <<>>]
  /\ start_epoch = [w \in workers |-> 0]
  /\ best = [w \in workers |-> 0]
  /\ epoch = [w \in workers |-> 0]
  /\ metric = [w \in workers |-> 0]
  /\ ckp = [w \in workers |-> Absent]
  /\ model = [w \in workers |-> 0]
  /\ optimizer = [w \in workers |-> 0]
  /\ training = [w \in workers |-> TRUE]
  /\ achieved = [w \in workers |-> 0]
  /\ loaded = [w \in workers |-> Absent]
  /\ history = <<>>
  /\ runlen = 0
  /\ nwrites = [p \in Paths |-> 0]
  /\ restarts = 0

\* ---- lines 83-105 (train.py), 90-113 (multiview): rank and process group
Startup(w) ==
  /\ pc[w] = "start"
  /\ IF mpd
       THEN LET r == GlobalRank(rank[w], w[2])
            IN /\ rank' = [rank EXCEPT ![w] = r]
               \* init_process_group refuses a rank outside 0..world_size-1
               /\ pc' = [pc EXCEPT ![w] = IF r \in 0..(WorldSize - 1)
                                           THEN "barrier" ELSE "fatal"]
       ELSE /\ rank' = rank
            /\ pc' = [pc EXCEPT ![w] = "resume"]
  /\ UNCHANGED <<script, experiment_name, mpd, workers, fs, model_dir,
                 start_epoch, best, epoch, metric, ckp, model, optimizer,
                 loaded, history, runlen, nwrites, restarts, training,
                 achieved>>
  /\ UNCHANGED notCkpt

\* ---- torch.distributed.barrier(): every rank of the group has arrived
Barrier ==
  /\ mpd
  /\ LET at == {w \in workers : pc[w] = "barrier"}
     IN /\ {rank[w] : w \in at} = 0..(WorldSize - 1)
        /\ \A w \in workers : pc[w] \in {"barrier", "fatal"}
        /\ pc' = [w \in workers |-> IF w \in at THEN "resume" ELSE pc[w]]
  /\ UNCHANGED <<script, experiment_name, mpd, workers, fs, rank, model_dir,
                 start_epoch, best, epoch, metric, ckp, model, optimizer,
                 loaded, history, runlen, nwrites, restarts, training,
                 achieved>>
  /\ UNCHANGED notCkpt

\* the directory the start-up looks into: join(args.model_dir, args.experiment_name)
StartupModelDir == Join(ArgsModelDir, experiment_name)

\* ---- "Resume if possible": lines 107-142 (train.py), 115-154 (multiview)
Resume(w) ==
  /\ pc[w] = "resume"
  /\ model_dir' = [model_dir EXCEPT ![w] = StartupModelDir]
  /\ LET f == fs[Join(StartupModelDir, "latest.pth")]
     IN IF Exists(f)
          THEN /\ ckp' = [ckp EXCEPT ![w] = f]
               /\ start_epoch' = [start_epoch EXCEPT ![w] = f.epoch]
               /\ best' = [best EXCEPT ![w] = f.best]
               /\ model' = [model EXCEPT ![w] = f.model]
               /\ optimizer' = [optimizer EXCEPT ![w] = f.optimizer]
               /\ loaded' = [loaded EXCEPT ![w] = f]
          ELSE /\ start_epoch' = [start_epoch EXCEPT ![w] = 0]
               /\ best' = [best EXCEPT ![w] = 0]
               /\ UNCHANGED <<ckp, model, optimizer, loaded>>
  /\ pc' = [pc EXCEPT ![w] = IF script = "multiview" THEN "prevalidate" ELSE "enter"]
  /\ UNCHANGED <<script, experiment_name, mpd, workers, fs, rank, epoch, metric,
                 history, runlen, nwrites, restarts, training,
                 achieved>>
  /\ UNCHANGED notCkpt

\* validate: the metric the current parameters score; parameters and optimizer untouched
ValidateMetric(w) == model[w]

\* ---- multiview line 172: the evaluation before the loop (printed only)
PreValidate(w) ==
  /\ pc[w] = "prevalidate"
  /\ metric' = [metric EXCEPT ![w] = ValidateMetric(w)]
  /\ training' = [training EXCEPT ![w] = FALSE]
  /\ pc' = [pc EXCEPT ![w] = "enter"]
  /\ UNCHANGED <<script, experiment_name, mpd, workers, fs, rank, model_dir,
                 start_epoch, best, epoch, ckp, model, optimizer,
                 loaded, history, runlen, nwrites, restarts,
                 achieved>>
  /\ UNCHANGED notCkpt

\* the best metric the loop starts with: multiview line 188 sets it to 0.0 again
LoopBest(w) == IF script = "multiview" THEN 0 ELSE best[w]

\* the directory the loop saves into: multiview line 189 sets it to args.model_dir
LoopModelDir(w) == IF script = "multiview" THEN ArgsModelDir ELSE model_dir[w]

\* ---- entry of "for epoch in range(start_epoch, args.epochs)"
EnterLoop(w) ==
  /\ pc[w] = "enter"
  /\ best' = [best EXCEPT ![w] = LoopBest(w)]
  /\ model_dir' = [model_dir EXCEPT ![w] = LoopModelDir(w)]
  /\ epoch' = [epoch EXCEPT ![w] = start_epoch[w]]
  /\ pc' = [pc EXCEPT ![w] = IF start_epoch[w] < Epochs THEN "loop" ELSE "done"]
  /\ UNCHANGED <<script, experiment_name, mpd, workers, fs, rank,
                 start_epoch, metric, ckp, model, optimizer,
                 loaded, history, runlen, nwrites, restarts, training,
                 achieved>>
  /\ UNCHANGED notCkpt

\* ---- top of the loop body: lines 180-181 (train.py), 193-194 (multiview).
\* The train loader is built without sampler=train_sampler (lines 150 / 163), so
\* train_loader.sampler is the loader's default sampler, which has no set_epoch:
\* under multiprocessing_distributed the call raises AttributeError.
SetEpoch(w) ==
  /\ pc[w] = "loop"
  /\ pc' = [pc EXCEPT ![w] = IF mpd THEN "fatal" ELSE "train"]
  /\ UNCHANGED <<script, experiment_name, mpd, workers, fs, rank, model_dir,
                 start_epoch, best, epoch, metric, ckp, model, optimizer,
                 loaded, history, runlen, nwrites, restarts, training,
                 achieved>>
  /\ UNCHANGED notCkpt

\* ---- train(...): one epoch of optimisation.  Under DistributedDataParallel the
\* backward pass averages gradients over all ranks, so the live workers take the
\* epoch together and end with the same parameters.
Train ==
  /\ Live # {}
  /\ \A w \in Live : pc[w] = "train"
  /\ \E q \in Metrics :
       model' = [w \in workers |-> IF w \in Live THEN q ELSE model[w]]
  /\ optimizer' = [w \in workers |-> IF w \in Live THEN optimizer[w] + 1
                                                    ELSE optimizer[w]]
  /\ training' = [w \in workers |-> IF w \in Live THEN TRUE ELSE training[w]]
  /\ pc' = [w \in workers |-> IF w \in Live THEN "validate" ELSE pc[w]]
  /\ history' = Append(history, epoch[CHOOSE w \in Live : TRUE])
  /\ runlen' = runlen + 1
  /\ UNCHANGED <<script, experiment_name, mpd, workers, fs, rank, model_dir,
                 start_epoch, best, epoch, metric, ckp, loaded, nwrites, restarts,
                 achieved>>
  /\ UNCHANGED notCkpt

\* faulty variant: the evaluation takes an optimizer step
ValidateStepping(w) ==
  /\ pc[w] = "validate"
  /\ metric' = [metric EXCEPT ![w] = ValidateMetric(w)]
  /\ training' = [training EXCEPT ![w] = FALSE]
  /\ achieved' = [achieved EXCEPT ![w] = Max(@, ValidateMetric(w))]
  /\ optimizer' = [optimizer EXCEPT ![w] = @ + 1]
  /\ pc' = [pc EXCEPT ![w] = "save_latest"]
  /\ UNCHANGED <<script, experiment_name, mpd, workers, fs, rank, model_dir,
                 start_epoch, best, epoch, ckp, model,
                 loaded, history, runlen, nwrites, restarts>>
  /\ UNCHANGED notCkpt

\* ---- "Evaluate": lines 187 (train.py), 200 (multiview).  validate starts with
\* model.cuda(); model.eval() and runs the model under torch.no_grad()
Validate(w) ==
  /\ pc[w] = "validate"
  /\ metric' = [metric EXCEPT ![w] = ValidateMetric(w)]
  /\ training' = [training EXCEPT ![w] = FALSE]
  /\ achieved' = [achieved EXCEPT ![w] = Max(@, ValidateMetric(w))]
  /\ pc' = [pc EXCEPT ![w] = "save_latest"]
  /\ UNCHANGED <<script, experiment_name, mpd, workers, fs, rank, model_dir,
                 start_epoch, best, epoch, ckp, model, optimizer,
                 loaded, history, runlen, nwrites, restarts>>
  /\ UNCHANGED notCkpt

\* faulty variant: the record carries the index of the epoch, not the count of epochs done
CkpRecordOffByOne(w) == Record(model[w], optimizer[w], epoch[w], best[w])

\* the dict built at lines 195-199 (train.py), 210-213 (multiview)
CkpRecord(w) == Record(model[w], optimizer[w], epoch[w] + 1, best[w])

\* "if args.rank == 0"
IsWriter(w) == rank[w] = 0

\* torch.save(r, path) by worker w
Save(w, path, r) ==
  /\ fs' = [fs EXCEPT ![path] = r]
  /\ nwrites' = [nwrites EXCEPT ![path] = nwrites[path] + 1]

\* ---- "Checkpoint": lines 194-201 (train.py), 209-215 (multiview)
SaveLatest(w) ==
  /\ pc[w] = "save_latest"
  /\ IF IsWriter(w)
       THEN /\ ckp' = [ckp EXCEPT ![w] = CkpRecord(w)]
            /\ Save(w, Join(model_dir[w], "latest.pth"), CkpRecord(w))
       ELSE UNCHANGED <<ckp, fs, nwrites>>
  /\ pc' = [pc EXCEPT ![w] = "compare"]
  /\ UNCHANGED <<script, experiment_name, mpd, workers, rank, model_dir,
                 start_epoch, best, epoch, metric, model, optimizer,
                 loaded, history, runlen, restarts, training,
                 achieved>>
  /\ UNCHANGED notCkpt

\* faulty variant: only a strictly better epoch counts
ImprovesStrict(m, b) == m > b

\* "if cIoU >= best_cIoU" / "if recall_at_10 >= best_recall_at_10"
Improves(m, b) == m >= b

\* ---- lines 202-205 (train.py), 217-220 (multiview), and the loop's next epoch
SaveBest(w) ==
  /\ pc[w] = "compare"
  /\ IF Improves(metric[w], best[w])
       THEN /\ best' = [best EXCEPT ![w] = metric[w]]
            /\ IF IsWriter(w)
                 THEN Save(w, Join(model_dir[w], "best.pth"), ckp[w])
                 ELSE UNCHANGED <<fs, nwrites>>
       ELSE UNCHANGED <<best, fs, nwrites>>
  /\ epoch' = [epoch EXCEPT ![w] = epoch[w] + 1]
  /\ pc' = [pc EXCEPT ![w] = IF epoch[w] + 1 < Epochs THEN "loop" ELSE "done"]
  /\ UNCHANGED <<script, experiment_name, mpd, workers, rank, model_dir,
                 start_epoch, metric, ckp, model, optimizer,
                 loaded, history, runlen, restarts, training,
                 achieved>>
  /\ UNCHANGED notCkpt

\* ---- the run is interrupted at an epoch boundary and launched again with the
\* same configuration: every process starts afresh, the files stay
Restart ==
  /\ restarts < MaxRestarts
  /\ runlen > 0
  /\ \A w \in Live : pc[w] \in {"loop", "done"}
  /\ restarts' = restarts + 1
  /\ pc' = [w \in workers |-> "start"]
  /\ rank' = [w \in workers |-> w[1]]
  /\ model_dir' = [w \in workers |-> <<>>]
  /\ start_epoch' = [w \in workers |-> 0]
  /\ best' = [w \in workers |-> 0]
  /\ epoch' = [w \in workers |-> 0]
  /\ metric' = [w \in workers |-> 0]
  /\ ckp' = [w \in workers |-> Absent]
  /\ model' = [w \in workers |-> 0]
  /\ optimizer' = [w \in workers |-> 0]
  /\ training' = [w \in workers |-> TRUE]
  /\ achieved' = [w \in workers |-> 0]
  /\ loaded' = [w \in workers |-> Absent]
  /\ runlen' = 0
  /\ UNCHANGED <<script, experiment_name, mpd, workers, fs, history, nwrites>>
  /\ UNCHANGED notCkpt

NextCkpt ==
  \/ \E w \in workers : Startup(w)
  \/ Barrier
  \/ \E w \in workers : Resume(w)
  \/ \E w \in workers : PreValidate(w)
  \/ \E w \in workers : EnterLoop(w)
  \/ \E w \in workers : SetEpoch(w)
  \/ Train
  \/ \E w \in workers : Validate(w)
  \/ \E w \in workers : SaveLatest(w)
  \/ \E w \in workers : SaveBest(w)
  \/ Restart

(***************************************************************************)
(*        PART 2: validate, tiled similarity matrix (SpecTile)             *)
(*  train.py lines 302-309, train_semantic_multiview.py lines 430-438.     *)
(*  Tensors are indexed from 0 as in the source.                           *)
(***************************************************************************)
\* inner product of two embeddings
Dot(a, b) == SumTo([d \in 1..Len(a) |-> a[d] * b[d]], Len(a))

\* the indices x[a:b] selects from a tensor of n rows: the slice is cut at n
PySlice(n, a, b) == a..(Min(b, n) - 1)

\* faulty variant: the tile is taken to be full
TileLenFull(n, start, b) == b

\* rows (columns) of the tile that starts at start: len(x[start:start + b])
TileLen(n, start, b) == Cardinality(PySlice(n, start, start + b))

\* torch.mm(img_batch, aud_batch.T) for the tile at (i, j): local row r, column c
TileProduct(i, j) ==
  [r \in 0..(TileLen(tN, i, tBlock) - 1), c \in 0..(TileLen(tM, j, tBlock) - 1) |->
     Dot(image_embeddings[i + r], audio_embeddings[j + c])]

Cells == (0..(tN - 1)) \X (0..(tM - 1))

InitTile ==
  /\ tN \in 0..MaxItems
  /\ tM \in 0..MaxItems
  /\ tBlock \in 1..MaxBlock
  /\ \E seed \in 0..MaxSeed :
       /\ image_embeddings = [i \in 0..(tN - 1) |-> <<1 + i, seed>>]
       /\ audio_embeddings = [j \in 0..(tM - 1) |-> <<tM + 1, j + seed>>]
  \* torch.zeros(N, M)
  /\ similarity_matrix = [x \in Cells |-> 0]
  /\ ti = 0
  /\ tj = 0
  /\ tpc = "loop"
  /\ twrites = [x \in Cells |-> 0]
  /\ ttiles = {}

\* ---- one pass of the inner loop body: the tile at (ti, tj) is computed and
\* assigned to similarity_matrix[i:i+b, j:j+b]; then the loops advance
TileWrite ==
  /\ tpc = "loop"
  /\ ti < tN
  /\ tj < tM
  /\ LET rows == TileLen(tN, ti, tBlock)
         cols == TileLen(tM, tj, tBlock)
         tile == TileProduct(ti, tj)
         hit(x) == /\ x[1] \in ti..(ti + rows - 1)
                   /\ x[2] \in tj..(tj + cols - 1)
     IN /\ similarity_matrix' =
             [x \in Cells |-> IF hit(x) THEN tile[x[1] - ti, x[2] - tj]
                                        ELSE similarity_matrix[x]]
        /\ twrites' = [x \in Cells |-> IF hit(x) THEN twrites[x] + 1 ELSE twrites[x]]
        /\ ttiles' = ttiles \cup {<<ti, tj, rows, cols>>}
  /\ IF tj + tBlock < tM
       THEN /\ tj' = tj + tBlock
            /\ ti' = ti
       ELSE /\ tj' = 0
            /\ ti' = ti + tBlock
  /\ UNCHANGED <<tN, tM, tBlock, image_embeddings, audio_embeddings, tpc>>
  /\ UNCHANGED notTile

\* ---- the loops are exhausted: range(0, N, b) is over, or every inner range is empty
TileEnd ==
  /\ tpc = "loop"
  /\ (ti >= tN \/ tM = 0)
  /\ tpc' = "done"
  /\ UNCHANGED <<tN, tM, tBlock, image_embeddings, audio_embeddings,
                 similarity_matrix, ti, tj, twrites, ttiles>>
  /\ UNCHANGED notTile

NextTile == TileWrite \/ TileEnd

\* C5: tiled construction.  Every tile visited lies inside [0,N) x [0,M) and
\* has the rows and columns that remain (the block size, or what is left on
\* the last tile of an axis); no cell is ever assigned twice; and when the
\* loops end every cell has been assigned exactly once and holds the inner
\* product of image embedding i and audio embedding j.
C5_TiledEqualsUntiled ==
  /\ \A t \in ttiles :
       /\ 0 <= t[1] /\ t[3] >= 1 /\ t[1] + t[3] <= tN
       /\ 0 <= t[2] /\ t[4] >= 1 /\ t[2] + t[4] <= tM
       /\ t[3] = (IF t[1] + tBlock <= tN THEN tBlock ELSE tN - t[1])
       /\ t[4] = (IF t[2] + tBlock <= tM THEN tBlock ELSE tM - t[2])
  /\ \A x \in Cells : twrites[x] <= 1
  /\ tpc = "done" =>
       \A x \in Cells :
         /\ twrites[x] = 1
         /\ similarity_matrix[x] = Dot(image_embeddings[x[1]], audio_embeddings[x[2]])

\* C5 witness: a finished construction whose extents are not multiples of the
\* block size, with more than one tile on each axis
C5_Witness ==
  /\ tpc = "done"
  /\ tBlock > 1
  /\ tN = tM
  /\ tN > tBlock
  /\ tN % tBlock # 0
  /\ Cardinality(ttiles) >= 4

(***************************************************************************)
(*            PART 3: train, one pass over the loader (SpecTrain)          *)
(*  train.py lines 220-267, train_semantic_multiview.py lines 240-394.     *)
(***************************************************************************)
\* the orders in which the elements of S can be listed
Orders(S) ==
  {q \in [1..Cardinality(S) -> S] : \A a, b \in DOMAIN q : a # b => q[a] # q[b]}

\* what DataLoader(batch_size = bs, drop_last = dl) yields for the samples in order
LoaderBatches(order, bs, dl) ==
  LET n == Len(order)
      count == IF dl THEN n \div bs ELSE (n + bs - 1) \div bs
  IN [k \in 1..count |-> SubSeq(order, (k - 1) * bs + 1, Min(k * bs, n))]

\* the ranked candidate list stored for video id v ("Top-200" / "indices")
Candidates(v) == <<2 * v, 2 * v + 1>>

(* Python's float: an IEEE 754 double, here a significand of FloatBits bits    *)
(* (most significant first, m[1] = 1) and the exponent e of m[1]; the value is *)
(* the sum of m[i] * 2^(e - i + 1).  Zero has the empty significand.           *)
FloatBits == 53

\* digits worked on in one piece when a quotient or a product is formed
LimbBits == 18

FloatZero == [m |-> <<>>, e |-> 0]

\* the number of binary digits of n (0 <= n < 2^30)
BitLen(n) == CHOOSE k \in 0..30 : n < 2^k /\ (k = 0 \/ n >= 2^(k - 1))

\* the last w binary digits of n, most significant first
BitsOf(n, w) == [i \in 1..w |-> (n \div 2^(w - i)) % 2]

\* the binary digits of the natural number n, most significant first
Bits(n) == BitsOf(n, BitLen(n))

\* the number whose binary digits are b
ValueOf(b) == SumTo([i \in 1..Len(b) |-> b[i] * 2^(Len(b) - i)], Len(b))

Zeros(k) == [i \in 1..k |-> 0]

\* b + 1; one digit longer when b is all ones
IncBits(b) ==
  IF \A i \in 1..Len(b) : b[i] = 1 THEN <<1>> \o Zeros(Len(b))
  ELSE LET j == CHOOSE i \in 1..Len(b) :
                  b[i] = 0 /\ \A l \in (i + 1)..Len(b) : b[l] = 1
       IN [i \in 1..Len(b) |-> IF i < j THEN b[i] ELSE IF i = j THEN 1 ELSE 0]

\* round to nearest, ties to even: b are the leading digits of the exact value
\* (b[1] = 1, of exponent e), sticky says that nonzero digits follow b
RoundBits(b, sticky, e) ==
  LET p == IF Len(b) >= FloatBits + 1 THEN b
           ELSE b \o Zeros(FloatBits + 1 - Len(b))
      m == SubSeq(p, 1, FloatBits)
      st == sticky \/ \E i \in (FloatBits + 2)..Len(p) : p[i] = 1
      up == p[FloatBits + 1] = 1 /\ (st \/ m[FloatBits] = 1)
      m2 == IF up THEN IncBits(m) ELSE m
  IN IF Len(m2) > FloatBits
       THEN [m |-> SubSeq(m2, 1, FloatBits), e |-> e + 1]
       ELSE [m |-> m2, e |-> e]

\* float(n) for an integer n >= 0
FromInt(n) == IF n = 0 THEN FloatZero ELSE RoundBits(Bits(n), FALSE, BitLen(n) - 1)

\* the first 5 * LimbBits binary digits of r / c after the binary point
\* (0 <= r < c < 2^13), worked LimbBits digits at a time, and the remainder left
FracBits(r, c) ==
  LET w == LimbBits
      t1 == r * 2^w
      t2 == (t1 % c) * 2^w
      t3 == (t2 % c) * 2^w
      t4 == (t3 % c) * 2^w
      t5 == (t4 % c) * 2^w
  IN <<BitsOf(t1 \div c, w) \o BitsOf(t2 \div c, w) \o BitsOf(t3 \div c, w)
         \o BitsOf(t4 \div c, w) \o BitsOf(t5 \div c, w),
       t5 % c>>

\* the zeros between the binary point and the first 1 of r / c (0 < r < c)
LeadZeros(r, c) == CHOOSE z \in 0..30 : r * 2^z < c /\ r * 2^(z + 1) >= c

\* s / c for integers s >= 0, c > 0: true division, correctly rounded
FloatDiv(s, c) ==
  IF s = 0 THEN FloatZero
  ELSE IF s >= c
    THEN LET ib == Bits(s \div c)
             fb == FracBits(s % c, c)
         IN RoundBits(ib \o fb[1], fb[2] # 0, Len(ib) - 1)
    ELSE LET z == LeadZeros(s, c)
             fb == FracBits(s, c)
         IN RoundBits(SubSeq(fb[1], z + 1, Len(fb[1])), fb[2] # 0, -(z + 1))

\* the digits of b * c for a significand b and 1 <= c < 2^12, without leading
\* zeros: b is cut into three pieces of LimbBits digits, multiplied from the last
MulBits(b, c) ==
  LET w == LimbBits
      p == Zeros(3 * w - Len(b)) \o b
      t3 == ValueOf(SubSeq(p, 2 * w + 1, 3 * w)) * c
      t2 == ValueOf(SubSeq(p, w + 1, 2 * w)) * c + t3 \div 2^w
      t1 == ValueOf(SubSeq(p, 1, w)) * c + t2 \div 2^w
  IN Bits(t1) \o BitsOf(t2 % 2^w, w) \o BitsOf(t3 % 2^w, w)

\* f * c for a float f and an integer c >= 0: the exact product, rounded
FloatMulInt(f, c) ==
  IF f = FloatZero \/ c = 0 THEN FloatZero
  ELSE LET p == MulBits(f.m, c)
       IN RoundBits(p, FALSE, f.e + (Len(p) - FloatBits))

\* AverageMeter.reset
MeterReset == [val |-> 0, sum |-> 0, count |-> 0, avg |-> FloatZero]

\* faulty variant: the weight n is left out of the sum
MeterUpdateUnweighted(m, val, n) ==
  [val |-> val, sum |-> m.sum + val, count |-> m.count + n,
   avg |-> FloatDiv(m.sum + val, m.count + n)]

\* AverageMeter.update(val, n), count + n > 0
MeterUpdate(m, val, n) ==
  [val |-> val, sum |-> m.sum + val * n, count |-> m.count + n,
   avg |-> FloatDiv(m.sum + val * n, m.count + n)]

InitTrain ==
  /\ trScript \in {"train", "multiview"}
  /\ \E n \in 0..MaxData : \E order \in Orders(1..n) :
       IF trScript = "train"
         \* train.py line 150: batch_size = args.batch_size, the last batch is kept
         THEN \E bs \in 1..MaxBatch : batches = LoaderBatches(order, bs, FALSE)
         \* multiview line 163: fixed batch size, drop_last = True
         ELSE batches = LoaderBatches(order, MultiviewBatch, TRUE)
  /\ IF trScript = "multiview"
       THEN \E ids \in SUBSET (1..MaxData) : \E q \in Orders(ids) :
              top_k_data = [k \in 1..Len(q) |-> <<q[k], Candidates(q[k])>>]
       ELSE top_k_data = <<>>
  /\ tr_i = 0
  /\ trpc = "fetch"
  /\ video_idx = <<>>
  /\ selected_index = <<>>
  /\ hp_rows = -1
  /\ hp_matrix = <<>>
  /\ loss_mtr = MeterReset
  /\ opt_steps = 0
  /\ loss_log = <<>>
  /\ trerr = ""

\* ---- "for i, (image, spec, _, video_idx, _) in enumerate(train_loader)"
NextBatch ==
  /\ trpc = "fetch"
  /\ IF tr_i < Len(batches)
       THEN /\ video_idx' = batches[tr_i + 1]
            /\ tr_i' = tr_i + 1
            /\ trpc' = IF trScript = "multiview" THEN "select" ELSE "loss"
       ELSE /\ trpc' = "done"
            /\ UNCHANGED <<video_idx, tr_i>>
  /\ selected_index' = <<>>
  /\ hp_rows' = -1
  /\ hp_matrix' = <<>>
  /\ UNCHANGED <<trScript, batches, top_k_data, loss_mtr, opt_steps, loss_log, trerr>>
  /\ UNCHANGED notTrain

RECURSIVE Selections(_, _)
\* multiview lines 288-295: the index is walked in file order; an entry whose
\* video_id is in the batch contributes random.choice of its candidates
Selections(entries, batch) ==
  IF entries = <<>> THEN {<<>>}
  ELSE LET e == Head(entries)
           rest == Selections(Tail(entries), batch)
       IN IF e[1] \in Range(batch)
            THEN {<<c>> \o r : c \in Range(e[2]), r \in rest}
            ELSE rest

\* ---- multiview lines 287-295
SelectHardPositives ==
  /\ trpc = "select"
  /\ selected_index' \in Selections(top_k_data, video_idx)
  /\ trpc' = "stack"
  /\ UNCHANGED <<trScript, batches, top_k_data, tr_i, video_idx, hp_rows, hp_matrix,
                 loss_mtr, opt_steps, loss_log, trerr>>
  /\ UNCHANGED notTrain

\* ---- multiview lines 298-307: the frames are fetched and stacked, then embedded
\* together with the B spectrograms of the batch.  torch.stack refuses an empty
\* list.  extract_features is given k frames and B spectrograms: for k # B the
\* model is outside its contract and may return k rows or raise.
FetchHardPositives ==
  /\ trpc = "stack"
  /\ LET k == Len(selected_index)
         B == Len(video_idx)
     IN IF k = 0
          THEN /\ trerr' = "RuntimeError: stack expects a non-empty TensorList"
               /\ trpc' = "error"
               /\ UNCHANGED hp_rows
          ELSE \/ /\ hp_rows' = k
                  /\ trpc' = "sims"
                  /\ UNCHANGED trerr
               \/ /\ k # B
                  /\ trerr' = "extract_features"
                  /\ trpc' = "error"
                  /\ UNCHANGED hp_rows
  /\ UNCHANGED <<trScript, batches, top_k_data, tr_i, video_idx, selected_index,
                 hp_matrix, loss_mtr, opt_steps, loss_log>>
  /\ UNCHANGED notTrain

\* ---- multiview lines 351-362: einsum("bc, ac -> ba", hp_image_emb, audio_emb)
\* has one row per hard-positive embedding and one column per audio embedding
BuildSimilarity ==
  /\ trpc = "sims"
  /\ hp_matrix' = <<hp_rows, Len(video_idx)>>
  /\ trpc' = "loss"
  /\ UNCHANGED <<trScript, batches, top_k_data, tr_i, video_idx, selected_index,
                 hp_rows, loss_mtr, opt_steps, loss_log, trerr>>
  /\ UNCHANGED notTrain

\* the values F.cross_entropy can take on a B x B matrix with labels 0..B-1:
\* with a single class the softmax is 1 and the loss is 0
LossValues(B) == IF B <= 1 THEN {0} ELSE 0..MaxLoss

\* F.cross_entropy(hp_similarity_matrix, labels) needs as many rows as labels
ShapesAgree(B) == trScript = "multiview" => hp_matrix[1] = B

\* ---- train.py lines 246-259, multiview lines 364-375: labels, cross entropy,
\* loss_mtr.update(loss.item(), B), zero_grad, backward, optimizer.step()
ComputeLoss ==
  /\ trpc = "loss"
  /\ LET B == Len(video_idx)
     IN IF ShapesAgree(B)
          THEN /\ \E l \in LossValues(B) : loss_mtr' = MeterUpdate(loss_mtr, l, B)
               /\ loss_log' = Append(loss_log, B)
               /\ opt_steps' = opt_steps + 1
               /\ trpc' = "fetch"
               /\ UNCHANGED trerr
          ELSE /\ trerr' = "ValueError: input batch_size does not match target batch_size"
               /\ trpc' = "error"
               /\ UNCHANGED <<loss_mtr, loss_log, opt_steps>>
  /\ UNCHANGED <<trScript, batches, top_k_data, tr_i, video_idx, selected_index,
                 hp_rows, hp_matrix>>
  /\ UNCHANGED notTrain

\* ---- after the loop: multiview lines 390-394 log loss.item(), which is unbound
\* when the loader yielded no batch; train.py returns
TrainReturn ==
  /\ trpc = "done"
  /\ IF trScript = "multiview" /\ tr_i = 0
       THEN /\ trerr' = "UnboundLocalError: loss"
            /\ trpc' = "error"
       ELSE /\ trpc' = "returned"
            /\ UNCHANGED trerr
  /\ UNCHANGED <<trScript, batches, top_k_data, tr_i, video_idx, selected_index,
                 hp_rows, hp_matrix, loss_mtr, opt_steps, loss_log>>
  /\ UNCHANGED notTrain

NextTrain ==
  \/ NextBatch
  \/ SelectHardPositives
  \/ FetchHardPositives
  \/ BuildSimilarity
  \/ ComputeLoss
  \/ TrainReturn

\* C6: no loss is computed for a degenerate batch.  Every batch for which a loss
\* value was computed, recorded in the loss meter and used for an optimizer
\* step had at least two samples.
C6_NoLossOnDegenerateBatch ==
  \A k \in 1..Len(loss_log) : loss_log[k] >= 2

\* the ids of the index
IndexIds == {top_k_data[k][1] : k \in 1..Len(top_k_data)}

InIndex(v) == v \in IndexIds

\* the rows of the current batch whose id is in the index, in batch order
MatchingRows == SelectSeq(video_idx, InIndex)

\* the hard-positive selection of the current batch has been made
Selected == trScript = "multiview" /\ trpc \in {"stack", "sims", "loss"}

\* C7: hard-positive alignment.  Once the selection for a batch is made it has
\* one entry per batch row whose id is in the index, and its k-th entry is one
\* of the candidates of the k-th such row, in batch order.
C7_SelectionAligned ==
  Selected =>
    /\ Len(selected_index) = Len(MatchingRows)
    /\ \A k \in 1..Len(selected_index) :
         selected_index[k] \in Range(Candidates(MatchingRows[k]))

\* C8: a hard-positive selection whose length differs from the batch size is
\* caught before the hard-positive similarity matrix is built: with such a
\* selection the matrix is never built and no loss is computed.
C8_MismatchCaughtBeforeMatrix ==
  (trScript = "multiview" /\ trpc \in {"stack", "sims", "loss", "error"}
     /\ Len(selected_index) # Len(video_idx))
    => (hp_matrix = <<>> /\ trpc # "loss")


(***************************************************************************)
(*     PART 4: Recall@K over a similarity matrix (SpecRetr)                *)
(*  train_semantic_multiview.py lines 441-450 (validate) and 454-467       *)
(*  (evaluate_retrieval); rows and columns are indexed from 0.             *)
(***************************************************************************)
\* the matrices tried: value a on the diagonal, b left of it, c right of it
FamilyMatrix(n, a, b, c) ==
  [i \in 0..(n - 1) |->
     [j \in 0..(n - 1) |-> IF i = j THEN a ELSE IF j < i THEN b ELSE c]]

IdentityMatrix(n) == FamilyMatrix(n, 1, 0, 0)

\* the selection of k columns in which every tie is resolved by column index
TopKChoicesStable(row, k) ==
  {T \in SUBSET (DOMAIN row) :
     /\ Cardinality(T) = k
     /\ \A x \in T, y \in (DOMAIN row) \ T :
          row[x] > row[y] \/ (row[x] = row[y] /\ x < y)}

\* what topk(k) / argsort(descending)[:k] can select from a row of at least k
\* entries: k columns none of which is smaller than a column left out.  Which
\* of several equal entries is taken is not fixed by either routine (topk
\* documents no order among equal values; argsort is called without stable).
TopKChoices(row, k) ==
  {T \in SUBSET (DOMAIN row) :
     /\ Cardinality(T) = k
     /\ \A x \in T, y \in (DOMAIN row) \ T : row[x] >= row[y]}

\* columns asked for and columns selected, per routine: topk(10) raises when the
\* row has fewer than 10 entries, the slice [:5] is cut at the row's length
AskedK == IF rmode = "validate" THEN TopKValidate ELSE Min(TopKEvaluate, rN)

\* the K of each routine
RoutineK(mode) == IF mode = "validate" THEN TopKValidate ELSE TopKEvaluate

InitRetr ==
  /\ rmode \in {"validate", "evaluate_retrieval"}
  /\ rN \in 1..(RoutineK(rmode) + ExtraCols)
  /\ \E a \in 0..MaxSim, b \in 0..MaxSim, c \in 0..MaxSim :
       rsim = FamilyMatrix(rN, a, b, c)
  /\ rrow = 0
  /\ rtop = {}
  /\ rhits = 0
  /\ rpc = "score"

\* ---- one row: its top-K columns are selected and compared with its own index
\* (validate line 446-448 does all rows in one call; evaluate_retrieval loops)
ScoreRow ==
  /\ rpc = "score"
  /\ rrow < rN
  /\ IF AskedK > rN
       THEN \* RuntimeError: selected index k out of range
            /\ rpc' = "error"
            /\ UNCHANGED <<rrow, rtop, rhits>>
       ELSE /\ rtop' \in TopKChoices(rsim[rrow], AskedK)
            /\ rhits' = rhits + (IF rrow \in rtop' THEN 1 ELSE 0)
            /\ rrow' = rrow + 1
            /\ UNCHANGED rpc
  /\ UNCHANGED <<rmode, rN, rsim>>
  /\ UNCHANGED notRetr

\* ---- all rows scored: the result is rhits / rN
ScoreEnd ==
  /\ rpc = "score"
  /\ rrow = rN
  /\ rpc' = "done"
  /\ UNCHANGED <<rmode, rN, rsim, rrow, rtop, rhits>>
  /\ UNCHANGED notRetr

NextRetr == ScoreRow \/ ScoreEnd

\* C9: on the identity matrix the evaluation does not fail, whatever N >= 1,
\* and returns Recall@K = 1.0 (every row is a hit).
C9_IdentityRecallIsOne ==
  rsim = IdentityMatrix(rN) =>
    /\ rpc # "error"
    /\ rpc = "done" => rhits = rN

\* the selection that resolves ties by original column index
StableTopK(row, k) == CHOOSE T \in TopKChoicesStable(row, k) : TRUE

RECURSIVE StableHits(_)
\* hits among rows 0..n-1 when every tie is resolved by column index
StableHits(n) ==
  IF n = 0 THEN 0
  ELSE StableHits(n - 1) + (IF (n - 1) \in StableTopK(rsim[n - 1], AskedK) THEN 1 ELSE 0)

\* C10: the metric is fixed by the matrix.  The columns selected for a row are
\* those a descending sort that keeps equal entries in column order puts
\* first, and the number of hits is the one this order gives.
C10_TiesByColumnOrder ==
  (rpc \in {"score", "done"} /\ rrow > 0) =>
    /\ rtop = StableTopK(rsim[rrow - 1], AskedK)
    /\ rhits = StableHits(rrow)

(***************************************************************************)
(*   PART 5: Recall@K as a function of K (SpecRecallK)                     *)
(*  The same two routines as in part 4.  The source fixes K (the literal   *)
(*  10 of line 446, top_k = 5 of line 455); here K is an input and the     *)
(*  routine is run on one matrix with K = kK1 and with K = kK2.            *)
(***************************************************************************)
\* what torch.argsort(row, descending=True) can return: the columns listed by
\* non-increasing value, equal entries in an order the routine does not fix
ArgsortChoices(row) ==
  {q \in Orders(DOMAIN row) :
     \A a, b \in DOMAIN q : a < b => row[q[a]] >= row[q[b]]}

\* sorted_indices[:k]
Prefix(q, k) == {q[a] : a \in 1..Min(k, Len(q))}

InitRecallK ==
  /\ kMode \in {"validate", "evaluate_retrieval"}
  /\ kN \in 1..MaxRecallItems
  /\ \E a \in 0..MaxSim, b \in 0..MaxSim, c \in 0..MaxSim :
       kSim = FamilyMatrix(kN, a, b, c)
  /\ kK1 \in 1..kN
  /\ kK2 \in kK1..kN
  /\ kRow = 0
  /\ kTop1 = {} /\ kTop2 = {}
  /\ kHits1 = 0 /\ kHits2 = 0
  /\ kpc = "score"

\* ---- one row scored by both runs.  validate calls topk(K) once per run: the
\* same call gives the same selection, but the selection of topk(K1) is not
\* tied to that of topk(K2).  evaluate_retrieval sorts the row (the same call,
\* on the same row, in both runs) and slices
RecallRow ==
  /\ kpc = "score"
  /\ kRow < kN
  /\ IF kMode = "validate"
       THEN /\ kTop1' \in TopKChoices(kSim[kRow], kK1)
            /\ IF kK1 = kK2 THEN kTop2' = kTop1'
                             ELSE kTop2' \in TopKChoices(kSim[kRow], kK2)
       ELSE \E q \in ArgsortChoices(kSim[kRow]) :
              /\ kTop1' = Prefix(q, kK1)
              /\ kTop2' = Prefix(q, kK2)
  /\ kHits1' = kHits1 + (IF kRow \in kTop1' THEN 1 ELSE 0)
  /\ kHits2' = kHits2 + (IF kRow \in kTop2' THEN 1 ELSE 0)
  /\ kRow' = kRow + 1
  /\ UNCHANGED <<kMode, kN, kSim, kK1, kK2, kpc>>
  /\ UNCHANGED notRecallK

\* ---- all rows scored: the results are kHits1 / kN and kHits2 / kN
RecallEnd ==
  /\ kpc = "score"
  /\ kRow = kN
  /\ kpc' = "done"
  /\ UNCHANGED <<kMode, kN, kSim, kK1, kK2, kRow, kTop1, kTop2, kHits1, kHits2>>
  /\ UNCHANGED notRecallK

NextRecallK == RecallRow \/ RecallEnd

MeterValues == 0..MaxVal
MeterWeights == 0..MaxWeight

\* AverageMeter(name, fmt): __init__ ends in self.reset()
InitMeter ==
  /\ meter = MeterReset
  /\ mpc = "ready"
  /\ merr = ""
  /\ mcalls = <<>>
  /\ mread = <<>>

\* ---- reset()
Reset ==
  /\ mpc = "ready"
  /\ mcalls # <<>>
  /\ meter' = MeterReset
  /\ mcalls' = <<>>
  /\ mread' = <<>>
  /\ UNCHANGED <<mpc, merr>>
  /\ UNCHANGED notMeter

\* ---- update(val, n): val, sum and count are assigned, then sum / count is
\* evaluated; with count = 0 the division raises ZeroDivisionError and avg keeps
\* its old value
Update ==
  /\ mpc = "ready"
  /\ Len(mcalls) < MaxCalls
  /\ \E val \in MeterValues, n \in MeterWeights :
       /\ mcalls' = Append(mcalls, <<val, n>>)
       /\ IF meter.count + n = 0
            THEN /\ meter' = [meter EXCEPT !.val = val, !.sum = @ + val * n,
                                            !.count = @ + n]
                 /\ mpc' = "error"
                 /\ merr' = "ZeroDivisionError"
            ELSE /\ meter' = MeterUpdate(meter, val, n)
                 /\ UNCHANGED <<mpc, merr>>
  /\ mread' = <<>>
  /\ UNCHANGED notMeter

\* ---- the caller reads meter.avg (writer.add_scalar(..., loss_mtr.avg, epoch),
\* __str__)
ReadAvg ==
  /\ mpc = "ready"
  /\ mread = <<>>
  /\ mread' = meter.avg
  /\ UNCHANGED <<meter, mpc, merr, mcalls>>
  /\ UNCHANGED notMeter

NextMeter == Reset \/ Update \/ ReadAvg

\* the totals of the calls recorded in mcalls
CallsSum == SumTo([k \in 1..Len(mcalls) |-> mcalls[k][1] * mcalls[k][2]], Len(mcalls))
CallsCount == SumTo([k \in 1..Len(mcalls) |-> mcalls[k][2]], Len(mcalls))

C13_NoDivisionByZero ==
  merr # "ZeroDivisionError"


(***************************************************************************)
(*   PART 7: validate, localization evaluation (SpecLoc)                   *)
(*  train.py lines 270-334; lines 281-309 are the same as lines 409-438    *)
(*  of train_semantic_multiview.py.  Tensors are kept by their shapes.     *)
(***************************************************************************)
LabelNames == 1..MaxLabels

\* the label sets an entry of the label file can hold
LabelValues == (SUBSET LabelNames) \ {{}}

\* batch_size of the test loader: train.py line 167, multiview line 169
TestBatch(s) == IF s = "train" THEN TrainTestBatch ELSE MultiviewTestBatch

\* tensor.squeeze(): every dimension of size 1 is removed
IsNotOne(x) == x # 1
Squeeze(shape) == SelectSeq(shape, IsNotOne)

\* lines 288-291: a 4-dimensional output [B, D, h, w] is averaged over h x w
\* (avg_pool2d with the full kernel gives [B, D, 1, 1]) and squeezed; a
\* 2-dimensional output is taken as it is
PooledShape(B) ==
  IF vOut = 4 THEN Squeeze(<<B, vD, 1, 1>>) ELSE <<B, vD>>

\* torch.cat(shapes, dim=0) accepts tensors of one or more dimensions that
\* agree in all dimensions but the first
CatOk(shapes) ==
  /\ shapes # <<>>
  /\ \A k \in 1..Len(shapes) :
       /\ shapes[k] # <<>>
       /\ Tail(shapes[k]) = Tail(shapes[1])

CatShape(shapes) ==
  <<SumTo([k \in 1..Len(shapes) |-> shapes[k][1]], Len(shapes))>> \o Tail(shapes[1])

\* np.sort(pred.flatten())
SortAsc(p) ==
  CHOOSE q \in [1..Len(p) -> Range(p)] :
    /\ \A a, b \in 1..Len(p) : a < b => q[a] <= q[b]
    /\ \A x \in Range(p) :
         Cardinality({a \in 1..Len(p) : q[a] = x}) = Cardinality({a \in 1..Len(p) : p[a] = x})

\* faulty variant: the element one position lower
ThresholdBelow(p) == SortAsc(p)[Len(p) \div 2]

\* line 328: np.sort(pred.flatten())[int(pred.size / 2)], positions from 0
Threshold(p) == SortAsc(p)[(Len(p) \div 2) + 1]

InitLoc ==
  /\ vScript \in {"train", "multiview"}
  /\ vN \in 1..MaxLocItems
  /\ vOut \in {2, 4}
  /\ vD \in 2..MaxDim
  /\ \E present \in SUBSET (1..vN) : vLabels \in [present -> LabelValues]
  /\ vpc = "collect"
  /\ verr = ""
  /\ vk = 0
  /\ vBatches = <<>>
  /\ vShapes = <<>>
  /\ vCat = <<>>
  /\ vSim = <<>>
  /\ gt_map = <<>>
  /\ vrow = 0
  /\ pred = <<>>
  /\ thr = 0
  /\ vScored = [i \in 1..vN |-> 0]
  /\ vPhases = <<"COLLECT">>

\* ---- lines 281-295: one batch of the test loader is embedded, pooled and appended
Collect ==
  /\ vpc = "collect"
  /\ vk < vN
  /\ LET B == Min(TestBatch(vScript), vN - vk)
     IN /\ vShapes' = Append(vShapes, PooledShape(B))
        /\ vBatches' = Append(vBatches, B)
        /\ vk' = vk + B
  /\ UNCHANGED <<vScript, vN, vOut, vD, vLabels, vpc, verr, vCat, vSim, gt_map,
                 vrow, pred, thr, vScored, vPhases>>
  /\ UNCHANGED notLoc

\* ---- lines 297-300: torch.cat(image_embeddings, dim=0), and the same for audio
CatEmbeddings ==
  /\ vpc = "collect"
  /\ vk = vN
  /\ IF CatOk(vShapes)
       THEN /\ vCat' = CatShape(vShapes)
            /\ vpc' = "matrix"
            /\ vPhases' = Append(vPhases, "MATRIX")
            /\ UNCHANGED verr
       ELSE /\ verr' = "RuntimeError: torch.cat"
            /\ vpc' = "error"
            /\ UNCHANGED <<vCat, vPhases>>
  /\ UNCHANGED <<vScript, vN, vOut, vD, vLabels, vk, vBatches, vShapes, vSim, gt_map,
                 vrow, pred, thr, vScored>>
  /\ UNCHANGED notLoc

\* ---- lines 303-309: the similarity matrix, by tiles (see part 2); torch.mm
\* takes matrices only
BuildMatrix ==
  /\ vpc = "matrix"
  /\ IF Len(vCat) = 2
       THEN /\ vSim' = <<vCat[1], vCat[1]>>
            /\ vpc' = IF vScript = "train" THEN "gt" ELSE "recall"
            /\ UNCHANGED verr
       ELSE /\ verr' = "RuntimeError: torch.mm"
            /\ vpc' = "error"
            /\ UNCHANGED vSim
  /\ UNCHANGED <<vScript, vN, vOut, vD, vLabels, vk, vBatches, vShapes, vCat, gt_map,
                 vrow, pred, thr, vScored, vPhases>>
  /\ UNCHANGED notLoc

\* line 316: labels[id1] == labels[id2]
SameLabels(a, b) == vLabels[a] = vLabels[b]

\* ---- lines 311-317: the ground-truth map; labels[id] raises KeyError for an id
\* without an entry
BuildGt ==
  /\ vpc = "gt"
  /\ IF \A id \in 1..vN : id \in DOMAIN vLabels
       THEN /\ gt_map' = [i \in 1..vN |->
                            [j \in 1..vN |-> IF SameLabels(i, j) THEN 1 ELSE 0]]
            /\ vpc' = "score"
            /\ vPhases' = Append(vPhases, "SCORE")
            /\ UNCHANGED verr
       ELSE /\ verr' = "KeyError"
            /\ vpc' = "error"
            /\ UNCHANGED <<gt_map, vPhases>>
  /\ UNCHANGED <<vScript, vN, vOut, vD, vLabels, vk, vBatches, vShapes, vCat, vSim,
                 vrow, pred, thr, vScored>>
  /\ UNCHANGED notLoc

\* ---- lines 320-329: one row.  The row is viewed as (1, 1, ViewLen, 1), which
\* raises unless it has ViewLen entries, and interpolated to the heatmap; the
\* heatmap is whatever the interpolation makes of the row.
ScoreLocRow ==
  /\ vpc = "score"
  /\ vrow < vSim[1]
  /\ IF vSim[2] # ViewLen
       THEN /\ verr' = "RuntimeError: view"
            /\ vpc' = "error"
            /\ UNCHANGED <<vrow, pred, thr, vScored>>
       ELSE /\ pred' \in [1..HeatPixels -> 0..MaxSim]
            /\ thr' = Threshold(pred')
            /\ vScored' = [vScored EXCEPT ![vrow + 1] = @ + 1]
            /\ vrow' = vrow + 1
            /\ UNCHANGED <<verr, vpc>>
  /\ UNCHANGED <<vScript, vN, vOut, vD, vLabels, vk, vBatches, vShapes, vCat, vSim,
                 gt_map, vPhases>>
  /\ UNCHANGED notLoc

\* ---- lines 331-334: evaluator.final(), evaluator.cal_AUC(), return
Final ==
  /\ vpc = "score"
  /\ vrow = vSim[1]
  /\ vpc' = "done"
  /\ vPhases' = Append(vPhases, "FINAL")
  /\ UNCHANGED <<vScript, vN, vOut, vD, vLabels, verr, vk, vBatches, vShapes, vCat,
                 vSim, gt_map, vrow, pred, thr, vScored>>
  /\ UNCHANGED notLoc

NextLoc == Collect \/ CatEmbeddings \/ BuildMatrix \/ BuildGt \/ ScoreLocRow \/ Final

\* every validation item has an entry in the label file
CompleteLabels == DOMAIN vLabels = 1..vN

\* C15: the ground-truth map has gt[i][j] = 1 exactly when the label sets of
\* items i and j share a label; it is symmetric and its diagonal is 1.
C15_GtIffSharedLabel ==
  gt_map # <<>> =>
    \A i, j \in 1..vN :
      /\ gt_map[i][j] = 1 <=> vLabels[i] \cap vLabels[j] # {}
      /\ gt_map[i][j] = gt_map[j][i]
      /\ gt_map[i][i] = 1

\* C16: an item without a label entry is left out as "no match"; the pass does
\* not end in an error caused by the missing entry.
C16_MissingEntryIsNoMatch ==
  verr # "KeyError"

\* C17: whatever the batch size B >= 1, a 4-dimensional output is pooled to
\* [B, D], and the concatenated embeddings have N rows of length D.
C17_PooledShapeIsBD ==
  /\ \A k \in 1..Len(vShapes) : vShapes[k] = <<vBatches[k], vD>>
  /\ verr \notin {"RuntimeError: torch.cat", "RuntimeError: torch.mm"}
  /\ vCat # <<>> => vCat = <<vN, vD>>

\* C18: with complete labels and N >= 1 the localization pass runs COLLECT,
\* MATRIX, SCORE, FINAL in this order, scores every row once, and does not end
\* before FINAL, whatever N.
C18_PhasesToFinal ==
  (vScript = "train" /\ CompleteLabels) =>
    /\ vpc # "error"
    /\ \E n \in 1..4 : vPhases = SubSeq(<<"COLLECT", "MATRIX", "SCORE", "FINAL">>, 1, n)
    /\ vpc = "done" => \A i \in 1..vN : vScored[i] = 1

\* C19: the threshold of a row is the element at position floor(P / 2) of its own
\* heatmap sorted ascending: it is one of the row's pixels, at most floor(P / 2)
\* of the row's pixels are strictly below it, and more than floor(P / 2) are not
\* above it.
C19_ThresholdIsRowMedian ==
  (vpc \in {"score", "done"} /\ vrow > 0) =>
    LET P == Len(pred)
        below == {a \in 1..P : pred[a] < thr}
        upto == {a \in 1..P : pred[a] <= thr}
    IN /\ P = HeatPixels
       /\ thr \in Range(pred)
       /\ Cardinality(below) <= P \div 2
       /\ Cardinality(upto) >= (P \div 2) + 1

\* C19 happens: a second row was scored, on a heatmap with pixels on both sides
\* of its threshold
C19_Witness ==
  /\ vpc = "score"
  /\ vrow >= 2
  /\ \E a, b \in 1..Len(pred) : pred[a] < thr /\ pred[b] = thr


(***************************************************************************)
(*                 claims about main_worker (under Spec)                   *)
(***************************************************************************)
\* the positions of the loop body, before best is compared and updated
InLoopBody(w) == pc[w] \in {"loop", "train", "validate", "save_latest", "compare"}

\* C1: checkpoint round trip.  A worker that read a 'latest' record at start-up
\* is, throughout the first iteration of its epoch loop (up to and including the
\* first "metric >= best" comparison), at start_epoch = the record's epoch and
\* holds as best metric the record's best metric.
C1_RoundTrip ==
  \A w \in workers :
    (Exists(loaded[w]) /\ InLoopBody(w) /\ epoch[w] = start_epoch[w])
      => (start_epoch[w] = loaded[w].epoch /\ best[w] = loaded[w].best)

\* C2: resume from the epoch boundary.  Over all launches of a run that is
\* interrupted at epoch boundaries and started again with the same
\* configuration, no epoch is trained twice.
C2_NoEpochRepeated ==
  \A i, j \in 1..Len(history) : i # j => history[i] # history[j]

\* C3: checkpoint write policy.  The step that ends an epoch's "save latest" by
\* the rank-0 worker writes 'latest' once, with an epoch field equal to the
\* number of epochs completed (those before this launch plus those trained in
\* it); the following step writes 'best' if and only if the epoch's metric is
\* >= the best held before it, and with metric < best leaves 'best' as it was.
C3_WritePolicy ==
  [][\A w \in workers :
       /\ (pc[w] = "save_latest" /\ pc'[w] = "compare" /\ rank[w] = 0) =>
            LET p == Join(model_dir[w], "latest.pth")
            IN /\ nwrites'[p] = nwrites[p] + 1
               /\ fs'[p].epoch = start_epoch[w] + runlen
       /\ (pc[w] = "compare" /\ pc'[w] # "compare" /\ rank[w] = 0) =>
            LET p == Join(model_dir[w], "best.pth")
            IN /\ (nwrites'[p] = nwrites[p] + 1) <=> (metric[w] >= best[w])
               /\ (metric[w] < best[w]) =>
                    (fs'[p] = fs[p] /\ nwrites'[p] = nwrites[p])
    ]_vars

\* C3 witness: a launch has ended in which 'best' was written in some epoch and
\* left unchanged in another
C3_Witness ==
  /\ workers # {}
  /\ \A w \in Live : pc[w] = "done"
  /\ \E p \in Paths, q \in Paths :
       /\ p[Len(p)] = "best.pth" /\ q[Len(q)] = "latest.pth"
       /\ nwrites[p] >= 1 /\ nwrites[q] > nwrites[p]

\* a step in which worker w runs validate (before the loop or between epochs)
ValidateStep(w) ==
  /\ pc[w] \in {"prevalidate", "validate"}
  /\ pc'[w] # pc[w]

\* what no validate call touches: parameters, optimizer, files, loop variables
ValidateFrame ==
  /\ model' = model
  /\ optimizer' = optimizer
  /\ UNCHANGED <<fs, rank, model_dir, start_epoch, best, epoch, ckp, history,
                 runlen, nwrites>>

BestSoFar(w) == Max(loaded[w].best, achieved[w])

\* C20: every record written at the end of an epoch, 'latest' and 'best', holds
\* as its best-metric field the maximum of the metrics of the epochs completed
\* so far, this epoch included, and of the best restored at start-up.
C20_RecordHoldsBestSoFar ==
  [][\A w \in workers :
       /\ (pc[w] = "save_latest" /\ pc'[w] = "compare" /\ IsWriter(w)) =>
            fs'[Join(model_dir[w], "latest.pth")].best = BestSoFar(w)
       /\ (pc[w] = "compare" /\ pc'[w] # "compare" /\ IsWriter(w)
              /\ nwrites'[Join(model_dir[w], "best.pth")]
                    # nwrites[Join(model_dir[w], "best.pth")]) =>
            fs'[Join(model_dir[w], "best.pth")].best = BestSoFar(w)]_vars

(***************************************************************************)
(*                         specifications                                  *)
(***************************************************************************)
IdleCkpt ==
  /\ script = "train" /\ experiment_name = "" /\ mpd = FALSE
  /\ workers = {} /\ fs = <<>> /\ pc = <<>> /\ rank = <<>>
  /\ model_dir = <<>> /\ start_epoch = <<>> /\ best = <<>> /\ epoch = <<>>
  /\ metric = <<>> /\ ckp = <<>> /\ model = <<>> /\ optimizer = <<>>
  /\ training = <<>> /\ achieved = <<>>
  /\ loaded = <<>> /\ history = <<>> /\ runlen = 0
  /\ nwrites = <<>> /\ restarts = 0

IdleTile ==
  /\ tN = 0 /\ tM = 0 /\ tBlock = 1
  /\ image_embeddings = <<>> /\ audio_embeddings = <<>>
  /\ similarity_matrix = <<>>
  /\ ti = 0 /\ tj = 0 /\ tpc = "idle"
  /\ twrites = <<>> /\ ttiles = {}

IdleTrain ==
  /\ trScript = "train" /\ batches = <<>> /\ top_k_data = <<>>
  /\ tr_i = 0 /\ trpc = "idle" /\ video_idx = <<>>
  /\ selected_index = <<>>
  /\ hp_rows = -1 /\ hp_matrix = <<>>
  /\ loss_mtr = <<>> /\ opt_steps = 0 /\ loss_log = <<>> /\ trerr = ""

IdleRetr ==
  /\ rmode = "validate" /\ rN = 0 /\ rsim = <<>> /\ rrow = 0
  /\ rtop = {} /\ rhits = 0 /\ rpc = "idle"

IdleRecallK ==
  /\ kMode = "validate" /\ kN = 0 /\ kSim = <<>> /\ kK1 = 0 /\ kK2 = 0
  /\ kRow = 0 /\ kTop1 = {} /\ kTop2 = {} /\ kHits1 = 0 /\ kHits2 = 0
  /\ kpc = "idle"

IdleMeter ==
  /\ meter = <<>> /\ mpc = "idle" /\ merr = "" /\ mcalls = <<>>
  /\ mread = <<>>

IdleLoc ==
  /\ vScript = "train" /\ vN = 0 /\ vOut = 2 /\ vD = 0 /\ vLabels = <<>>
  /\ vpc = "idle" /\ verr = "" /\ vk = 0 /\ vBatches = <<>> /\ vShapes = <<>>
  /\ vCat = <<>> /\ vSim = <<>> /\ gt_map = <<>> /\ vrow = 0 /\ pred = <<>>
  /\ thr = 0 /\ vScored = <<>> /\ vPhases = <<>>

Init == InitCkpt /\ IdleTile /\ IdleTrain /\ IdleRetr /\ IdleRecallK /\ IdleMeter /\ IdleLoc

Next == NextCkpt

Spec == Init /\ [][Next]_vars

InitTileSpec == IdleCkpt /\ InitTile /\ IdleTrain /\ IdleRetr /\ IdleRecallK /\ IdleMeter /\ IdleLoc

SpecTile == InitTileSpec /\ [][NextTile]_vars

InitTrainSpec == IdleCkpt /\ IdleTile /\ InitTrain /\ IdleRetr /\ IdleRecallK /\ IdleMeter /\ IdleLoc

SpecTrain == InitTrainSpec /\ [][NextTrain]_vars

InitRetrSpec == IdleCkpt /\ IdleTile /\ IdleTrain /\ InitRetr /\ IdleRecallK /\ IdleMeter /\ IdleLoc

SpecRetr == InitRetrSpec /\ [][NextRetr]_vars

InitRecallKSpec == IdleCkpt /\ IdleTile /\ IdleTrain /\ IdleRetr /\ InitRecallK /\ IdleMeter /\ IdleLoc

SpecRecallK == InitRecallKSpec /\ [][NextRecallK]_vars

InitMeterSpec ==
  IdleCkpt /\ IdleTile /\ IdleTrain /\ IdleRetr /\ IdleRecallK /\ InitMeter /\ IdleLoc

SpecMeter == InitMeterSpec /\ [][NextMeter]_vars

InitLocSpec ==
  IdleCkpt /\ IdleTile /\ IdleTrain /\ IdleRetr /\ IdleRecallK /\ IdleMeter /\ InitLoc

SpecLoc == InitLocSpec /\ [][NextLoc]_vars

====
